---- MODULE Spec2Model ----
(***************************************************************************)
(* Lequel: language identification from character trigrams                 *)
(* (src/Lequel.cpp).                                                       *)
(*                                                                         *)
(* A string is a sequence of bytes (0..255), a wstring a sequence of       *)
(* UTF-16 code units, a TrigramProfile (std::map<string, float>) a         *)
(* function from keys to float values, iterated in the byte order of its   *)
(* keys.  A float is an IEEE-754 binary32 value, kept as <<m, e>> for the   *)
(* value m * 2^e with 2^23 <= m < 2^24 (or <<0, 0>> for zero); every       *)
(* operation rounds to nearest, ties to even.  The profiles hold no        *)
(* negative values, and the exponents stay far from the subnormal and      *)
(* overflow ranges.                                                        *)
(***************************************************************************)
EXTENDS Integers, Sequences, FiniteSets

-----------------------------------------------------------------------------
(* float arithmetic *)

TwoP23 == 8388608
TwoP24 == 16777216
Limb == 4096

NaN == <<-1, 0>>
Inf == <<-2, 0>>
Zero == <<0, 0>>

IsNaN(x) == x[1] = -1
IsInf(x) == x[1] = -2
IsFinite(x) == x[1] >= 0

\* the float of the exact value m * 2^e, 0 <= m < 2^24
RECURSIVE Norm(_, _)
Norm(m, e) ==
    IF m = 0 THEN Zero
    ELSE IF m < TwoP23 THEN Norm(2 * m, e - 1)
    ELSE <<m, e>>

\* (m + r/d) * 2^e rounded to nearest, ties to even; 2^23 <= m < 2^24, 0 <= r < d
RoundNE(m, r, d, e) ==
    LET up == (2 * r > d) \/ (2 * r = d /\ m % 2 = 1)
        m1 == IF up THEN m + 1 ELSE m
    IN  IF m1 = TwoP24 THEN <<TwoP23, e + 1>> ELSE <<m1, e>>

\* the float nearest to (H * 2^24 + L) * 2^e, 0 <= H, L < 2^24
RECURSIVE RoundWide(_, _, _)
RoundWide(H, L, e) ==
    IF H = 0 THEN Norm(L, e)
    ELSE IF H < TwoP23
         THEN RoundWide(2 * H + (L \div TwoP23), (L % TwoP23) * 2, e - 1)
         ELSE RoundNE(H, L, TwoP24, e + 24)

\* float * float
FMul(a, b) ==
    IF IsNaN(a) \/ IsNaN(b) THEN NaN
    ELSE IF IsInf(a) \/ IsInf(b)
         THEN (IF a = Zero \/ b = Zero THEN NaN ELSE Inf)
    ELSE IF a = Zero \/ b = Zero THEN Zero
    ELSE LET a1 == a[1] \div Limb
             a0 == a[1] % Limb
             b1 == b[1] \div Limb
             b0 == b[1] % Limb
             mid == a1 * b0 + a0 * b1
             lraw == a0 * b0 + (mid % Limb) * Limb
             L == lraw % TwoP24
             H == a1 * b1 + (mid \div Limb) + (lraw \div TwoP24)
         IN  RoundWide(H, L, a[2] + b[2])

\* float + float (non-negative operands)
FAdd(a, b) ==
    IF IsNaN(a) \/ IsNaN(b) THEN NaN
    ELSE IF IsInf(a) \/ IsInf(b) THEN Inf
    ELSE IF a = Zero THEN b
    ELSE IF b = Zero THEN a
    ELSE LET hi == IF a[2] >= b[2] THEN a ELSE b
             lo == IF a[2] >= b[2] THEN b ELSE a
             d == hi[2] - lo[2]
         IN  IF d > 24 THEN hi
             ELSE LET cut == 2 ^ (24 - d)
                      lsum == (hi[1] % cut) * (2 ^ d) + lo[1]
                  IN  RoundWide((hi[1] \div cut) + (lsum \div TwoP24),
                                lsum % TwoP24, lo[2])

\* long division: n quotient bits of rem / mr
RECURSIVE DivBits(_, _, _, _)
DivBits(rem, mr, q, n) ==
    IF n = 0 THEN <<q, rem>>
    ELSE IF rem >= mr
         THEN DivBits(2 * (rem - mr), mr, 2 * q + 1, n - 1)
         ELSE DivBits(2 * rem, mr, 2 * q, n - 1)

\* float / float
FDiv(a, b) ==
    IF IsNaN(a) \/ IsNaN(b) THEN NaN
    ELSE IF IsInf(a) THEN (IF IsInf(b) THEN NaN ELSE Inf)
    ELSE IF IsInf(b) THEN Zero
    ELSE IF b = Zero THEN (IF a = Zero THEN NaN ELSE Inf)
    ELSE IF a = Zero THEN Zero
    ELSE LET n == IF a[1] >= b[1] THEN 24 ELSE 25
             qr == DivBits(a[1], b[1], 0, n)
         IN  \* qr[2] is twice the remainder of the last subtraction
             RoundNE(qr[1], qr[2], 2 * b[1], a[2] - b[2] - (n - 1))

\* bit pairs i..24 of H * 2^24 + L, most significant first
RECURSIVE SqrtBits(_, _, _, _, _)
SqrtBits(H, L, i, root, rem) ==
    IF i > 24 THEN <<root, rem>>
    ELSE LET pair == IF i <= 12 THEN (H \div (4 ^ (12 - i))) % 4
                                ELSE (L \div (4 ^ (24 - i))) % 4
             r2 == 4 * rem + pair
             t == 4 * root + 1
         IN  IF r2 >= t THEN SqrtBits(H, L, i + 1, 2 * root + 1, r2 - t)
                        ELSE SqrtBits(H, L, i + 1, 2 * root, r2)

\* sqrtf
FSqrt(a) ==
    IF IsNaN(a) THEN NaN
    ELSE IF IsInf(a) THEN Inf
    ELSE IF a = Zero THEN Zero
    ELSE LET j == IF (a[2] - 24) % 2 = 0 THEN 24 ELSE 23
             H == IF j = 24 THEN a[1] ELSE a[1] \div 2
             L == IF j = 24 THEN 0 ELSE (a[1] % 2) * TwoP23
             rr == SqrtBits(H, L, 1, 0, 0)
             e == (a[2] - j) \div 2
         IN  IF rr[2] > rr[1]
             THEN (IF rr[1] + 1 = TwoP24 THEN <<TwoP23, e + 1>>
                                         ELSE <<rr[1] + 1, e>>)
             ELSE <<rr[1], e>>

\* float > float
FGt(a, b) ==
    IF IsNaN(a) \/ IsNaN(b) THEN FALSE
    ELSE IF IsInf(b) THEN FALSE
    ELSE IF IsInf(a) THEN TRUE
    ELSE IF a = Zero THEN FALSE
    ELSE IF b = Zero THEN TRUE
    ELSE (a[2] + 0 > b[2]) \/ (a[2] = b[2] /\ a[1] > b[1])

\* the float literals of the program
F0 == Zero
F1 == Norm(1, 0)

-----------------------------------------------------------------------------
(* strings, UTF-8 and UTF-16 (wstring_convert<codecvt_utf8_utf16<wchar_t>>) *)

CR == 13

IsCont(c) == c >= 128 /\ c < 192
IsHighSurrogate(c) == c >= 55296 /\ c < 56320
IsLowSurrogate(c) == c >= 56320 /\ c < 57344

\* one UTF-8 sequence at s[i]: the code point and its length, "incomplete"
\* when the bytes end inside the sequence, "invalid" otherwise
ReadUtf8(s, i) ==
    LET avail == Len(s) - i + 1
        c1 == s[i]
    IN  IF c1 < 128 THEN [res |-> "ok", cp |-> c1, len |-> 1]
        ELSE IF c1 < 194 THEN [res |-> "invalid", cp |-> 0, len |-> 0]
        ELSE IF c1 < 224 THEN
            IF avail < 2 THEN [res |-> "incomplete", cp |-> 0, len |-> 0]
            ELSE IF ~IsCont(s[i + 1]) THEN [res |-> "invalid", cp |-> 0, len |-> 0]
            ELSE [res |-> "ok", cp |-> (c1 - 192) * 64 + (s[i + 1] - 128), len |-> 2]
        ELSE IF c1 < 240 THEN
            IF avail < 3 THEN [res |-> "incomplete", cp |-> 0, len |-> 0]
            ELSE IF ~IsCont(s[i + 1]) \/ (c1 = 224 /\ s[i + 1] < 160) \/ ~IsCont(s[i + 2])
                 THEN [res |-> "invalid", cp |-> 0, len |-> 0]
            ELSE [res |-> "ok",
                  cp |-> (c1 - 224) * 4096 + (s[i + 1] - 128) * 64 + (s[i + 2] - 128),
                  len |-> 3]
        ELSE IF c1 < 245 THEN
            IF avail < 4 THEN [res |-> "incomplete", cp |-> 0, len |-> 0]
            ELSE IF ~IsCont(s[i + 1]) \/ (c1 = 240 /\ s[i + 1] < 144)
                    \/ (c1 = 244 /\ s[i + 1] >= 144)
                    \/ ~IsCont(s[i + 2]) \/ ~IsCont(s[i + 3])
                 THEN [res |-> "invalid", cp |-> 0, len |-> 0]
            ELSE [res |-> "ok",
                  cp |-> (c1 - 240) * 262144 + (s[i + 1] - 128) * 4096
                         + (s[i + 2] - 128) * 64 + (s[i + 3] - 128),
                  len |-> 4]
        ELSE [res |-> "invalid", cp |-> 0, len |-> 0]

\* a code point as UTF-16 code units
Utf16Units(cp) ==
    IF cp < 65536 THEN <<cp>>
    ELSE <<55232 + (cp \div 1024), 56320 + (cp % 1024)>>

\* a code point as UTF-8 bytes
Utf8Bytes(cp) ==
    IF cp < 128 THEN <<cp>>
    ELSE IF cp < 2048 THEN <<192 + (cp \div 64), 128 + (cp % 64)>>
    ELSE IF cp < 65536
         THEN <<224 + (cp \div 4096), 128 + ((cp \div 64) % 64), 128 + (cp % 64)>>
    ELSE <<240 + (cp \div 262144), 128 + ((cp \div 4096) % 64),
           128 + ((cp \div 64) % 64), 128 + (cp % 64)>>

\* converter.from_bytes(line): a malformed sequence throws range_error, a
\* sequence cut short by the end of the line ends the conversion silently
RECURSIVE FromBytesFrom(_, _, _)
FromBytesFrom(s, i, acc) ==
    IF i > Len(s) THEN [ok |-> TRUE, str |-> acc]
    ELSE LET r == ReadUtf8(s, i)
         IN  IF r.res = "incomplete" THEN [ok |-> TRUE, str |-> acc]
             ELSE IF r.res = "invalid" THEN [ok |-> FALSE, str |-> acc]
             ELSE FromBytesFrom(s, i + r.len, acc \o Utf16Units(r.cp))

FromBytes(s) == FromBytesFrom(s, 1, <<>>)

\* converter.to_bytes(wstring): a low surrogate with no high one before it,
\* or a high one followed by something else, throws range_error; a high
\* surrogate at the very end ends the conversion silently
RECURSIVE ToBytesFrom(_, _, _)
ToBytesFrom(w, i, acc) ==
    IF i > Len(w) THEN [ok |-> TRUE, str |-> acc]
    ELSE IF IsHighSurrogate(w[i]) THEN
        IF i = Len(w) THEN [ok |-> TRUE, str |-> acc]
        ELSE IF IsLowSurrogate(w[i + 1])
             THEN ToBytesFrom(w, i + 2,
                      acc \o Utf8Bytes((w[i] - 55296) * 1024 + (w[i + 1] - 56320) + 65536))
             ELSE [ok |-> FALSE, str |-> acc]
    ELSE IF IsLowSurrogate(w[i]) THEN [ok |-> FALSE, str |-> acc]
    ELSE ToBytesFrom(w, i + 1, acc \o Utf8Bytes(w[i]))

ToBytes(w) == ToBytesFrom(w, 1, <<>>)

\* ::tolower of <cctype>, "C" locale
tolower(c) == IF c >= 65 /\ c <= 90 THEN c + 32 ELSE c

\* std::transform(begin, end, begin, ::tolower)
Transform(w) == [i \in 1..Len(w) |-> tolower(w[i])]

\* std::string operator< (bytes compared as unsigned char)
RECURSIVE StrLess(_, _)
StrLess(a, b) ==
    IF b = <<>> THEN FALSE
    ELSE IF a = <<>> THEN TRUE
    ELSE IF a[1] # b[1] THEN a[1] < b[1]
    ELSE StrLess(Tail(a), Tail(b))

\* the keys of a std::map in iteration order
RECURSIVE SortKeys(_)
SortKeys(S) ==
    IF S = {} THEN <<>>
    ELSE LET k == CHOOSE x \in S : \A y \in S \ {x} : StrLess(x, y)
         IN  <<k>> \o SortKeys(S \ {k})

Keys(p) == SortKeys(DOMAIN p)

EmptyProfile == <<>>

\* map::insert({k, v}) on an absent key, and assignment to an element
MapPut(p, k, v) == [x \in (DOMAIN p) \cup {k} |-> IF x = k THEN v ELSE p[x]]

\* map::operator[]: the map after the access (an absent key is inserted with 0.F)
MapIndex(p, k) == IF k \in DOMAIN p THEN p ELSE MapPut(p, k, F0)

-----------------------------------------------------------------------------
(* src/Lequel.cpp *)

\* lines 52-68: the trigrams of one line, from window i on
RECURSIVE TrigramLoop(_, _, _)
TrigramLoop(unicodeString, i, textProfile) ==
    IF ~(i < Len(unicodeString) - 2) THEN [thrown |-> FALSE, profile |-> textProfile]
    ELSE LET unicodeTrigram == SubSeq(unicodeString, i + 1, i + 3)
             conv == ToBytes(unicodeTrigram)
             trigram == conv.str
         IN  IF ~conv.ok THEN [thrown |-> TRUE, profile |-> textProfile]
             ELSE IF trigram \in DOMAIN textProfile
                  THEN TrigramLoop(unicodeString, i + 1,
                           MapPut(textProfile, trigram, FAdd(textProfile[trigram], F1)))
                  ELSE TrigramLoop(unicodeString, i + 1, MapPut(textProfile, trigram, F1))

\* lines 37-69: the lines of the text, from line n on
RECURSIVE LineLoop(_, _, _)
LineLoop(text, n, textProfile) ==
    IF n > Len(text) THEN [thrown |-> FALSE, profile |-> textProfile]
    ELSE LET line0 == text[n]
             line == IF Len(line0) > 0 /\ line0[Len(line0)] = CR
                     THEN SubSeq(line0, 1, Len(line0) - 1)
                     ELSE line0
             conv == FromBytes(line)
         IN  IF ~conv.ok THEN [thrown |-> TRUE, profile |-> textProfile]
             ELSE IF Len(conv.str) < 3 THEN LineLoop(text, n + 1, textProfile)
             ELSE LET r == TrigramLoop(Transform(conv.str), 0, textProfile)
                  IN  IF r.thrown THEN r
                      ELSE LineLoop(text, n + 1, r.profile)

\* the outcome of a call: the value returned, or std::range_error thrown
buildTrigramProfile(text) ==
    LET r == LineLoop(text, 1, EmptyProfile)
    IN  IF r.thrown THEN [thrown |-> TRUE, ret |-> EmptyProfile]
        ELSE [thrown |-> FALSE, ret |-> r.profile]

buildLanguageProfile(corpus) == buildTrigramProfile(corpus)

\* line 84-85
RECURSIVE SumSquaresLoop(_, _, _)
SumSquaresLoop(p, ks, sumSquares) ==
    IF ks = <<>> THEN sumSquares
    ELSE SumSquaresLoop(p, Tail(ks), FAdd(sumSquares, FMul(p[Head(ks)], p[Head(ks)])))

\* normalizeTrigramProfile without the sqrtf of line 87
normalizeTrigramProfileNoRoot(trigramProfile) ==
    LET sumSquares == SumSquaresLoop(trigramProfile, Keys(trigramProfile), F0)
    IN  [profile |-> [k \in DOMAIN trigramProfile |-> FDiv(trigramProfile[k], sumSquares)],
         squareRoot |-> sumSquares]

\* the profile after the call, with the divisor used
normalizeTrigramProfile(trigramProfile) ==
    LET sumSquares == SumSquaresLoop(trigramProfile, Keys(trigramProfile), F0)
        squareRoot == FSqrt(sumSquares)
    IN  [profile |-> [k \in DOMAIN trigramProfile |-> FDiv(trigramProfile[k], squareRoot)],
         squareRoot |-> squareRoot]

\* CosineLoop without the find() of line 113: operator[] on every trigram of the text
RECURSIVE CosineLoopNoFind(_, _, _, _, _)
CosineLoopNoFind(textProfile, languageProfile, ks, sumProduct, alias) ==
    IF ks = <<>>
    THEN [ret |-> sumProduct, textProfile |-> textProfile, languageProfile |-> languageProfile]
    ELSE LET trigram == Head(ks)
             lp == MapIndex(languageProfile, trigram)
             tp == IF alias THEN lp ELSE textProfile
         IN  CosineLoopNoFind(tp, lp, Tail(ks),
                              FAdd(sumProduct, FMul(textProfile[trigram], lp[trigram])),
                              alias)

\* lines 109-115; alias: both parameters are the same map
RECURSIVE CosineLoop(_, _, _, _, _)
CosineLoop(textProfile, languageProfile, ks, sumProduct, alias) ==
    IF ks = <<>>
    THEN [ret |-> sumProduct, textProfile |-> textProfile, languageProfile |-> languageProfile]
    ELSE LET trigram == Head(ks)
         IN  IF trigram \in DOMAIN languageProfile
             THEN LET lp == MapIndex(languageProfile, trigram)
                      tp == IF alias THEN lp ELSE textProfile
                  IN  CosineLoop(tp, lp, Tail(ks),
                                 FAdd(sumProduct, FMul(textProfile[trigram], lp[trigram])),
                                 alias)
             ELSE CosineLoop(textProfile, languageProfile, Tail(ks), sumProduct, alias)

\* getCosineSimilarity with the result clamped to 1
getCosineSimilarityClamped(textProfile, languageProfile, alias) ==
    LET r == CosineLoop(textProfile, languageProfile, Keys(textProfile), F0, alias)
    IN  [r EXCEPT !.ret = IF FGt(r.ret, F1) THEN F1 ELSE r.ret]

\* the value returned and the two maps after the call
getCosineSimilarity(textProfile, languageProfile, alias) ==
    CosineLoop(textProfile, languageProfile, Keys(textProfile), F0, alias)

\* the decimal digits of a natural number, as characters
RECURSIVE Digits(_)
Digits(n) == IF n < 10 THEN <<48 + n>> ELSE Append(Digits(n \div 10), 48 + (n % 10))

\* the next count decimals of (hi * 2^24 + lo) / 2^K, 24 < K <= 48, after the
\* decimals acc: the decimals as a number, with the remainder left
RECURSIVE Decimals(_, _, _, _, _)
Decimals(hi, lo, K, count, acc) ==
    IF count = 0 THEN [n |-> acc, hi |-> hi, lo |-> lo]
    ELSE LET top == hi * 10 + ((lo * 10) \div TwoP24)
         IN  Decimals(top % (2 ^ (K - 24)), (lo * 10) % TwoP24, K, count - 1,
                      acc * 10 + (top \div (2 ^ (K - 24))))

\* std::to_string(float): the value as printf("%f") writes it, six decimals,
\* the exact value rounded to nearest, ties to even (values below 2^30)
to_string(x) ==
    IF IsNaN(x) THEN <<110, 97, 110>>
    ELSE IF IsInf(x) THEN <<105, 110, 102>>
    ELSE LET k == 0 - x[2]
             whole == IF k <= 0 THEN x[1] * (2 ^ (0 - k))
                      ELSE IF k <= 24 THEN x[1] \div (2 ^ k)
                      ELSE 0
             d == IF k <= 0 \/ k > 48 THEN [n |-> 0, hi |-> 0, lo |-> 0]
                  ELSE IF k <= 24 THEN Decimals(x[1] % (2 ^ k), 0, k + 24, 6, 0)
                  ELSE Decimals(0, x[1], k, 6, 0)
             K == IF k <= 24 THEN k + 24 ELSE k
             half == 2 ^ (K - 25)
             up == k > 0 /\ k <= 48 /\
                   (d.hi > half \/ (d.hi = half /\ (d.lo > 0 \/ d.n % 2 = 1)))
             n == IF up THEN d.n + 1 ELSE d.n
             w == IF n = 1000000 THEN whole + 1 ELSE whole
             f == Digits(1000000 + (n % 1000000))
         IN  Digits(w) \o <<46>> \o Tail(f)

\* LanguageLoop with >= for the > of line 141
RECURSIVE LanguageLoopGe(_, _, _, _, _)
LanguageLoopGe(trigramProfileText, languages, n, maxCosineSimilarity, similarLenguajeCode) ==
    IF n > Len(languages)
    THEN [max |-> maxCosineSimilarity, code |-> similarLenguajeCode, languages |-> languages]
    ELSE LET languageProfile == languages[n]
             cos == getCosineSimilarity(trigramProfileText, languageProfile.trigramProfile, FALSE)
             cosineSimilarity == cos.ret
         IN  IF FGt(cosineSimilarity, maxCosineSimilarity) \/ cosineSimilarity = maxCosineSimilarity
             THEN LanguageLoopGe(cos.textProfile, languages, n + 1,
                                 cosineSimilarity, languageProfile.languageCode)
             ELSE LanguageLoopGe(cos.textProfile, languages, n + 1,
                                 maxCosineSimilarity, similarLenguajeCode)

\* lines 137-146: the catalog entries from entry n on; each entry is a copy
\* (auto languageProfile), so the catalog is handed on as it was.  The line
\* written to cout is left out.
RECURSIVE LanguageLoop(_, _, _, _, _)
LanguageLoop(trigramProfileText, languages, n, maxCosineSimilarity, similarLenguajeCode) ==
    IF n > Len(languages)
    THEN [max |-> maxCosineSimilarity, code |-> similarLenguajeCode, languages |-> languages]
    ELSE LET languageProfile == languages[n]
             cos == getCosineSimilarity(trigramProfileText, languageProfile.trigramProfile, FALSE)
             cosineSimilarity == cos.ret
         IN  IF FGt(cosineSimilarity, maxCosineSimilarity)
             THEN LanguageLoop(cos.textProfile, languages, n + 1,
                               cosineSimilarity, languageProfile.languageCode)
             ELSE LanguageLoop(cos.textProfile, languages, n + 1,
                               maxCosineSimilarity, similarLenguajeCode)

\* identifyLanguage without the test of line 148: the score always appended
identifyLanguageAlwaysAppends(text, languages) ==
    LET built == buildTrigramProfile(text)
    IN  IF built.thrown
        THEN [thrown |-> TRUE, ret |-> <<>>,
              languages |-> languages, raw |-> EmptyProfile, squareRoot |-> F0]
        ELSE LET norm == normalizeTrigramProfile(built.ret)
                 r == LanguageLoop(norm.profile, languages, 1, F0, <<45, 45, 45>>)
             IN  [thrown |-> FALSE,
                  ret |-> r.code \o <<32, 40>> \o to_string(r.max) \o <<41>>,
                  languages |-> r.languages,
                  raw |-> built.ret,
                  squareRoot |-> norm.squareRoot]

\* the outcome of a call: std::range_error thrown, or the string returned, with
\* the catalog after the call and the locals of the normalization step
identifyLanguage(text, languages) ==
    LET built == buildTrigramProfile(text)
    IN  IF built.thrown
        THEN [thrown |-> TRUE, ret |-> <<>>,
              languages |-> languages, raw |-> EmptyProfile, squareRoot |-> F0]
        ELSE LET norm == normalizeTrigramProfile(built.ret)
                 trigramProfileText == norm.profile
                 r == LanguageLoop(trigramProfileText, languages, 1, F0, <<45, 45, 45>>)
             IN  [thrown |-> FALSE,
                  ret |-> IF FGt(r.max, F0)
                          THEN r.code \o <<32, 40>> \o to_string(r.max) \o <<41>>
                          ELSE r.code,
                  languages |-> r.languages,
                  raw |-> built.ret,
                  squareRoot |-> norm.squareRoot]

-----------------------------------------------------------------------------
(* the program state and the calls a host makes *)

VARIABLES
    text,       \* the Text at hand (a sequence of lines, each a byte string)
    languages,  \* the catalog: LanguageProfiles
    profile,    \* the TrigramProfile the host holds
    normalized, \* history: profile is the result of normalizing a profile of positive values
    call        \* the last call made: its arguments and its outcome

vars == <<text, languages, profile, normalized, call>>

NoCall == [op |-> "none"]

\* profile = buildTrigramProfile(text)
BuildTrigramProfile ==
    LET r == buildTrigramProfile(text)
    IN  /\ call' = [op |-> "buildTrigramProfile", text |-> text,
                    thrown |-> r.thrown, ret |-> r.ret]
        /\ profile' = IF r.thrown THEN profile ELSE r.ret
        /\ normalized' = IF r.thrown THEN normalized ELSE FALSE
        /\ UNCHANGED <<text, languages>>

\* profile = buildLanguageProfile(text)
BuildLanguageProfile ==
    LET r == buildLanguageProfile(text)
    IN  /\ call' = [op |-> "buildLanguageProfile", text |-> text,
                    thrown |-> r.thrown, ret |-> r.ret]
        /\ profile' = IF r.thrown THEN profile ELSE r.ret
        /\ normalized' = IF r.thrown THEN normalized ELSE FALSE
        /\ UNCHANGED <<text, languages>>

Positive(p) == p # EmptyProfile /\ \A k \in DOMAIN p : FGt(p[k], F0) /\ IsFinite(p[k])

\* normalizeTrigramProfile(profile)
NormalizeTrigramProfile ==
    LET r == normalizeTrigramProfile(profile)
    IN  /\ call' = [op |-> "normalizeTrigramProfile", before |-> profile,
                    after |-> r.profile, squareRoot |-> r.squareRoot]
        /\ profile' = r.profile
        /\ normalized' = Positive(profile)
        /\ UNCHANGED <<text, languages>>

\* getCosineSimilarity(profile, entry n of the catalog)
GetCosineSimilarity(n) ==
    LET r == getCosineSimilarity(profile, languages[n].trigramProfile, FALSE)
    IN  /\ call' = [op |-> "getCosineSimilarity", alias |-> FALSE,
                    textProfile |-> profile,
                    languageProfile |-> languages[n].trigramProfile,
                    ret |-> r.ret]
        /\ profile' = r.textProfile
        /\ languages' = [languages EXCEPT ![n].trigramProfile = r.languageProfile]
        /\ UNCHANGED <<text, normalized>>

\* getCosineSimilarity(profile, profile)
GetCosineSimilaritySelf ==
    LET r == getCosineSimilarity(profile, profile, TRUE)
    IN  /\ call' = [op |-> "getCosineSimilarity", alias |-> TRUE,
                    textProfile |-> profile, languageProfile |-> profile,
                    ret |-> r.ret]
        /\ profile' = r.textProfile
        /\ UNCHANGED <<text, languages, normalized>>

\* identifyLanguage(text, languages)
IdentifyLanguage ==
    LET r == identifyLanguage(text, languages)
    IN  /\ call' = [op |-> "identifyLanguage", text |-> text, languages |-> languages,
                    thrown |-> r.thrown, ret |-> r.ret,
                    raw |-> r.raw, squareRoot |-> r.squareRoot]
        /\ languages' = r.languages
        /\ UNCHANGED <<text, profile, normalized>>

-----------------------------------------------------------------------------
(* inputs *)

MaxLineLen == 4     \* characters in a line given to the profile builder
MaxLines == 2       \* lines of a text
MaxIdentLen == 4    \* characters in a text given to identification
MaxLanguages == 2   \* entries of the catalog
MaxCount == 2       \* largest count in a raw profile

\* all sequences of at most n elements of S
SeqsUpTo(S, n) == UNION {[1..k -> S] : k \in 0..n}

\* the concatenation of a sequence of strings
RECURSIVE Concat(_)
Concat(ss) == IF ss = <<>> THEN <<>> ELSE Head(ss) \o Concat(Tail(ss))

\* characters as UTF-8: A, a, b, CR, E-acute (capital), euro sign, grinning face;
\* and the first byte of a two-byte sequence on its own
ChA == <<65>>
Cha == <<97>>
Chb == <<98>>
ChCR == <<13>>
ChEacute == <<195, 137>>
ChEuro == <<226, 130, 172>>
ChFace == <<240, 159, 152, 128>>
ChCut == <<195>>

LinesOver(S, n) == {Concat(cs) : cs \in SeqsUpTo(S, n)}

\* one line of any of the characters, one longer line of a, the grinning face and
\* the cut sequence, and several lines of a
BuildTexts ==
    {<<l>> : l \in LinesOver({ChA, Cha, ChCR, ChEacute, ChEuro, ChFace, ChCut}, MaxLineLen - 1)}
    \cup {<<l>> : l \in LinesOver({Cha, ChFace, ChCut}, MaxLineLen)}
    \cup SeqsUpTo(LinesOver({Cha}, MaxLineLen - 1), MaxLines)

FromInt(n) == Norm(n, 0)
F2 == FromInt(2)
FHalfSqrt2 == <<11863283, -24>>     \* 0.70710677F

ProfilesOver(K, V) == UNION {[S -> V] : S \in SUBSET K}

KeyAAA == <<97, 97, 97>>
KeyAAB == <<97, 97, 98>>
KeyBBB == <<98, 98, 98>>

\* the language codes en, fr, es, de
Codes == <<<<101, 110>>, <<102, 114>>, <<101, 115>>, <<100, 101>>>>

EntryProfiles ==
    ProfilesOver({KeyAAA}, {F1}) \cup ProfilesOver({KeyAAB}, {F1})
    \cup {[k \in {KeyAAA, KeyAAB} |-> FHalfSqrt2]}

Catalogs ==
    UNION {{[i \in 1..n |-> [languageCode |-> Codes[i], trigramProfile |-> f[i]]] :
               f \in [1..n -> EntryProfiles]} : n \in 0..MaxLanguages}

IdentTexts ==
    {<<l>> : l \in LinesOver({Cha, Chb}, MaxIdentLen)}
    \cup {<<>>, <<ChFace \o Cha \o Cha>>}

IdentProfiles == ProfilesOver({KeyAAA, KeyAAB, KeyBBB}, {FHalfSqrt2, F2})

NormProfiles == ProfilesOver({KeyAAA, KeyAAB, KeyBBB}, {FromInt(n) : n \in 0..MaxCount})

NormTexts == {<<>>, <<Cha \o Cha>>, <<Cha \o Cha \o Cha \o Chb>>}

-----------------------------------------------------------------------------
(* specifications *)

\* identification against a catalog
Init ==
    /\ languages \in Catalogs
    /\ \/ text \in IdentTexts /\ profile = EmptyProfile
       \/ text = <<>> /\ profile \in IdentProfiles
    /\ normalized = FALSE
    /\ call = NoCall

Next ==
    \/ IdentifyLanguage
    \/ \E n \in 1..Len(languages) : GetCosineSimilarity(n)

Spec == Init /\ [][Next]_vars

\* profile building
InitBuild ==
    /\ text \in BuildTexts
    /\ languages = <<>>
    /\ profile = EmptyProfile
    /\ normalized = FALSE
    /\ call = NoCall

NextBuild ==
    \/ BuildTrigramProfile
    \/ BuildLanguageProfile
    \/ IdentifyLanguage

SpecBuild == InitBuild /\ [][NextBuild]_vars

\* normalization
InitNormalize ==
    /\ text \in NormTexts
    /\ languages = <<[languageCode |-> Codes[1], trigramProfile |-> [k \in {KeyAAA} |-> F1]]>>
    /\ profile \in NormProfiles
    /\ normalized = FALSE
    /\ call = NoCall

NextNormalize ==
    \/ NormalizeTrigramProfile
    \/ GetCosineSimilaritySelf
    \/ IdentifyLanguage

SpecNormalize == InitNormalize /\ [][NextNormalize]_vars

-----------------------------------------------------------------------------
(* reference definitions for the properties *)

\* the common keys of T and L from the lowest to the highest, the products
\* T[k] * L[k] added up in that order
RECURSIVE DotOver(_, _, _)
DotOver(T, L, S) ==
    IF S = {} THEN F0
    ELSE LET last == CHOOSE x \in S : \A y \in S \ {x} : StrLess(y, x)
         IN  FAdd(DotOver(T, L, S \ {last}), FMul(T[last], L[last]))

Dot(T, L) == DotOver(T, L, (DOMAIN T) \cap (DOMAIN L))

IsIdentify == call.op = "identifyLanguage" /\ ~call.thrown

\* the normalized text profile of an identifyLanguage call, and its
\* similarity with entry i of the catalog
TextProfileOfCall == normalizeTrigramProfile(call.raw).profile
Similarity(i) == Dot(TextProfileOfCall, call.languages[i].trigramProfile)

SomePositive == \E i \in 1..Len(call.languages) : FGt(Similarity(i), F0)

\* entry i has the greatest similarity, and no entry before it has as much
IsBest(i) ==
    /\ \A j \in 1..Len(call.languages) : ~FGt(Similarity(j), Similarity(i))
    /\ \A j \in 1..(i - 1) : FGt(Similarity(i), Similarity(j))

IsBuild == call.op \in {"buildTrigramProfile", "buildLanguageProfile"}

\* a line without its trailing carriage return
StripCR(line) ==
    IF Len(line) > 0 /\ line[Len(line)] = CR THEN SubSeq(line, 1, Len(line) - 1) ELSE line

\* the Unicode code points of a string; valid is FALSE when the string is not
\* well-formed UTF-8 (a malformed or unfinished sequence, an encoded surrogate)
RECURSIVE CodePointsFrom(_, _, _)
CodePointsFrom(s, i, acc) ==
    IF i > Len(s) THEN [valid |-> TRUE, cps |-> acc]
    ELSE LET r == ReadUtf8(s, i)
         IN  IF r.res # "ok" \/ IsHighSurrogate(r.cp) \/ IsLowSurrogate(r.cp)
             THEN [valid |-> FALSE, cps |-> acc]
             ELSE CodePointsFrom(s, i + r.len, Append(acc, r.cp))

CodePoints(s) == CodePointsFrom(s, 1, <<>>)

ValidText(t) == \A n \in 1..Len(t) : CodePoints(t[n]).valid

\* simple case folding of the letters of Basic Latin and Latin-1
IsUpper(cp) == (cp >= 65 /\ cp <= 90) \/ (cp >= 192 /\ cp <= 222 /\ cp # 215)
Lower(cp) == IF IsUpper(cp) THEN cp + 32 ELSE cp

\* the units of line n of t: its code points, lowercased as the builder does
Units(t, n) ==
    LET cps == CodePoints(StripCR(t[n])).cps
    IN  [i \in 1..Len(cps) |-> tolower(cps[i])]

\* the UTF-8 string of a sequence of code points
Utf8(cps) == Concat([i \in 1..Len(cps) |-> Utf8Bytes(cps[i])])

\* the windows of t: <<n, i>> is the window of line n made of units i, i+1, i+2
Windows(t) == UNION {{<<n, i>> : i \in 1..(Len(Units(t, n)) - 2)} : n \in 1..Len(t)}
WindowKey(t, w) == Utf8(SubSeq(Units(t, w[1]), w[2], w[2] + 2))

\* the profile of t by counting its windows
WindowProfile(t) ==
    [k \in {WindowKey(t, w) : w \in Windows(t)} |->
        FromInt(Cardinality({w \in Windows(t) : WindowKey(t, w) = k}))]

\* t with every letter in lowercase
LowerText(t) == [n \in 1..Len(t) |-> Utf8([i \in 1..Len(CodePoints(t[n]).cps) |->
                                              Lower(CodePoints(t[n]).cps[i])])]

-----------------------------------------------------------------------------
(* properties *)

\* the string returned for code c with score x, and the string "---"
WithScore(c, x) == c \o <<32, 40>> \o to_string(x) \o <<41>>
Sentinel == <<45, 45, 45>>

\* C1: when some entry of the catalog has similarity > 0 with the normalized
\* text profile, identifyLanguage returns the code of the entry of greatest
\* similarity, the first such entry when several share it.
C1_BestMatch ==
    (IsIdentify /\ SomePositive) =>
        \E i \in 1..Len(call.languages) :
            /\ IsBest(i)
            /\ SubSeq(call.ret, 1, 2) = call.languages[i].languageCode
            /\ call.ret = WithScore(call.languages[i].languageCode, Similarity(i))

\* a tie at the top between two entries of different profiles
C1_Witness ==
    /\ IsIdentify
    /\ Len(call.languages) = 2
    /\ FGt(Similarity(1), F0)
    /\ Similarity(1) = Similarity(2)
    /\ call.languages[1].trigramProfile # call.languages[2].trigramProfile
    /\ SubSeq(call.ret, 1, 2) = Codes[1]

C8_CatalogUnchanged == [][languages' = languages /\ text' = text]_vars

\* a call was made with a trigram of the text profile missing from a catalog profile
C8_Witness ==
    \/ /\ IsIdentify
       /\ \E i \in 1..Len(call.languages) :
             (DOMAIN call.raw) \ (DOMAIN call.languages[i].trigramProfile) # {}
    \/ /\ call.op = "getCosineSimilarity"
       /\ (DOMAIN call.textProfile) \ (DOMAIN call.languageProfile) # {}
       /\ (DOMAIN call.textProfile) \cap (DOMAIN call.languageProfile) # {}

\* C9: getCosineSimilarity(T, L) is the sum of T[k] * L[k] over the trigrams k
\* that are keys of both; nothing else contributes, nothing is normalized or
\* clamped, and the result is 0 when no key is shared.
C9_DotProduct ==
    call.op = "getCosineSimilarity" =>
        /\ call.ret = Dot(call.textProfile, call.languageProfile)
        /\ (DOMAIN call.textProfile) \cap (DOMAIN call.languageProfile) = {} => call.ret = F0

\* two shared keys, keys on one side only on both sides, and a result above 1
C9_Witness ==
    /\ call.op = "getCosineSimilarity"
    /\ Cardinality((DOMAIN call.textProfile) \cap (DOMAIN call.languageProfile)) = 2
    /\ (DOMAIN call.textProfile) \ (DOMAIN call.languageProfile) # {}
    /\ FGt(call.ret, F1)

\* C3: the keys of the profile returned by buildTrigramProfile are exactly the
\* windows of 3 consecutive units taken inside each line (carriage return
\* removed, lowercased), each with the number of windows equal to it; a line of
\* n >= 3 units gives n - 2 windows, a shorter line none.
C3_WindowCounts ==
    (IsBuild /\ ~call.thrown /\ ValidText(call.text)) =>
        call.ret = WindowProfile(call.text)

\* C4: the units are Unicode code points whatever their encoded width: a line
\* is skipped if and only if it has fewer than 3 code points, and every key is
\* a string of exactly 3 code points.
C4_CodePoints ==
    (IsBuild /\ ~call.thrown /\ ValidText(call.text)) =>
        /\ (call.ret = EmptyProfile) <=>
               \A n \in 1..Len(call.text) : Len(Units(call.text, n)) < 3
        /\ \A k \in DOMAIN call.ret :
               CodePoints(k).valid /\ Len(CodePoints(k).cps) = 3

\* C5: two texts that differ only in the case of their letters, ASCII or not,
\* have the same profile, and no key holds an uppercase letter.
C5_CaseInsensitive ==
    (IsBuild /\ ~call.thrown /\ ValidText(call.text)) =>
        /\ call.ret = buildTrigramProfile(LowerText(call.text)).ret
        /\ \A k \in DOMAIN call.ret :
               \A i \in 1..Len(CodePoints(k).cps) : ~IsUpper(CodePoints(k).cps[i])

\* C7: a text with a line that is not valid Unicode makes buildTrigramProfile
\* (and buildLanguageProfile, identifyLanguage) end in an error and return no
\* profile.
C7_DecodeFailure ==
    /\ (IsBuild /\ ~ValidText(call.text)) => call.thrown
    /\ (call.op = "identifyLanguage" /\ ~ValidText(call.text)) => call.thrown

ZeroWeight(p) == \A k \in DOMAIN p : p[k] = F0

\* C6: a profile of zero total weight (empty, or all values zero) is detected
\* before any division: normalizeTrigramProfile never divides by a zero norm
\* and leaves every value of such a profile zero, and identifyLanguage on a
\* text with no line of 3 code points divides by nothing.
C6_ZeroWeightGuard ==
    /\ call.op = "normalizeTrigramProfile" =>
          /\ ~(call.before # EmptyProfile /\ call.squareRoot = F0)
          /\ ZeroWeight(call.before) => \A k \in DOMAIN call.after : call.after[k] = F0
    /\ (call.op = "identifyLanguage" /\ ~call.thrown) =>
          ~(call.raw # EmptyProfile /\ call.squareRoot = F0)

SumSq(p) == Dot(p, p)

\* |x - 1| <= (n + 2) * 2^-22
Near1(x, n) ==
    /\ IsFinite(x)
    /\ ~FGt(<<TwoP24 - 4 * (n + 2), -24>>, x)
    /\ ~FGt(x, <<TwoP23 + 2 * (n + 2), -23>>)

\* C10 as claimed: normalizing a non-empty profile of positive values keeps its
\* keys, divides every value by the square root of the sum of squares, and
\* leaves a sum of squares of 1; the similarity of the result with itself is 1.
C10_ExactUnit ==
    /\ (call.op = "normalizeTrigramProfile" /\ Positive(call.before)) =>
          /\ DOMAIN call.after = DOMAIN call.before
          /\ \A k \in DOMAIN call.after :
                call.after[k] = FDiv(call.before[k], FSqrt(SumSq(call.before)))
          /\ SumSq(call.after) = F1
    /\ (call.op = "getCosineSimilarity" /\ call.alias /\ normalized) => call.ret = F1

\* C10: normalizing a non-empty profile of positive values keeps its keys and
\* divides every value by the square root of the sum of squares; the sum of
\* squares of the result, and its similarity with itself, are 1 up to the
\* rounding of float arithmetic: within (n + 2) * 2^-22 for n keys.
C10_UnitWithinRounding ==
    /\ (call.op = "normalizeTrigramProfile" /\ Positive(call.before)) =>
          /\ DOMAIN call.after = DOMAIN call.before
          /\ \A k \in DOMAIN call.after :
                call.after[k] = FDiv(call.before[k], FSqrt(SumSq(call.before)))
          /\ Near1(SumSq(call.after), Cardinality(DOMAIN call.after))
    /\ (call.op = "getCosineSimilarity" /\ call.alias /\ normalized) =>
          Near1(call.ret, Cardinality(DOMAIN call.textProfile))

\* the similarity with itself of a normalized profile of several keys, not exactly 1
C10_Witness ==
    /\ call.op = "getCosineSimilarity"
    /\ call.alias
    /\ normalized
    /\ Cardinality(DOMAIN call.textProfile) >= 2
    /\ call.ret # F1
    /\ Near1(call.ret, Cardinality(DOMAIN call.textProfile))

====
